---- MODULE Spec2Model ----
(***************************************************************************)
(* Model of jupyter_sphinx/execute.py: the ExecuteJupyterCells transform   *)
(* (grouping of the document's Jupyter nodes into notebooks, execution of  *)
(* each notebook in a kernel, extraction of the outputs to files and       *)
(* conversion of the cell outputs to doctree nodes) and the download role. *)
(*                                                                         *)
(* Strings that the code builds by concatenation (file names, paths,       *)
(* tracebacks) are sequences of tokens, so that a + b is a \o b.           *)
(***************************************************************************)
EXTENDS Integers, Sequences, FiniteSets, TLC

VARIABLES
    doc,            \* the doctree's Jupyter nodes, in document order
    allow_errors,   \* config jupyter_execute_kwargs['allow_errors']
    priority,       \* config jupyter_execute_data_priority
    pc,             \* position of ExecuteJupyterCells.apply
    groups,         \* nodes_by_notebook: the lists split_on yields
    gi,             \* index of the group the for loop is at (0: before it)
    next_default,   \* how many names default_names has yielded
    kernel_name,    \* apply's local kernel_name
    file_name,      \* apply's local file_name
    unit_names,     \* the file_name of each unit so far, in order
    nodes,          \* apply's local nodes: the unit's cell nodes
    notebook,       \* the notebook execute_cells builds and executenb fills
    ci,             \* number of cells of the notebook executed so far
    exc,            \* the exception in flight ("" when none)
    live,           \* the groups whose kernel is running
    log,            \* what was asked of the kernels, in order
    written,        \* files written so far: [unit, path]
    children,       \* per doc node: its children (source and attached outputs)
    widget_nodes    \* the JupyterWidgetStateNodes appended to the doctree

vars == <<doc, allow_errors, priority, pc, groups, gi, next_default,
          kernel_name, file_name, unit_names, nodes, notebook, ci, exc,
          live, log, written, children, widget_nodes>>

-----------------------------------------------------------------------------
(* Bounds of the model *)

MaxNodes == 3        \* Jupyter nodes in a document
MaxOutputs == 2      \* outputs of a cell, where a cell's outputs are drawn freely
MaxPriority == 3     \* length of a drawn jupyter_execute_data_priority

-----------------------------------------------------------------------------
(* Strings *)

\* str(i) for the small i the model reaches
Digits == <<"0", "1", "2", "3", "4", "5", "6", "7", "8", "9">>
Str(i) == <<Digits[i + 1]>>

\* sep.join(parts), parts a sequence of strings
RECURSIVE Join(_, _)
Join(sep, parts) ==
    IF parts = <<>> THEN <<>>
    ELSE IF Len(parts) = 1 THEN parts[1]
    ELSE parts[1] \o sep \o Join(sep, Tail(parts))

\* os.path.join(dir, name): a path is the directory followed by the name
PathJoin(dir, name) == dir \o <<"/">> \o name

-----------------------------------------------------------------------------
(* Doctree nodes *)

JupyterKernelNode(name, id) ==
    [type |-> "kernel", kernel_name |-> name, kernel_id |-> id,
     hide_code |-> FALSE, hide_output |-> FALSE, code_below |-> FALSE]

JupyterCellNode(hc, ho, cb) ==
    [type |-> "cell", kernel_name |-> "", kernel_id |-> <<>>,
     hide_code |-> hc, hide_output |-> ho, code_below |-> cb]

IsKernelNode(n) == n.type = "kernel"
IsCellNode(n) == n.type = "cell"

\* the literal_block a JupyterCellNode is built with
SourceBlock == [kind |-> "literal_block", text |-> <<"source">>, attr |-> ""]

\* the document's name (basename of env.docname)
docname == <<"doc">>

\* config jupyter_execute_default_kernel
default_kernel == "python3"

-----------------------------------------------------------------------------
(* split_on *)

\* split_on's predicate is given as the set of the items it is true of

\* the closure count of split_on: its value after the first i items
RECURSIVE count(_, _, _)
count(pred, it, i) ==
    IF i = 0 THEN 0
    ELSE count(pred, it, i - 1) + (IF it[i] \in pred THEN 1 ELSE 0)

\* itertools.groupby(it, key), key[i] the key of it[i]: the runs of
\* consecutive items with equal keys
RECURSIVE groupby(_, _, _, _)
groupby(it, key, i, acc) ==
    IF i > Len(it) THEN acc
    ELSE IF i > 1 /\ key[i] = key[i - 1]
         THEN groupby(it, key, i + 1,
                      [acc EXCEPT ![Len(acc)] = Append(@, it[i])])
         ELSE groupby(it, key, i + 1, Append(acc, <<it[i]>>))

\* a slip split_on could make: grouping on the predicate itself
split_on_pred(pred, it) ==
    groupby(it, [i \in 1..Len(it) |-> it[i] \in pred], 1, <<>>)

split_on(pred, it) ==
    groupby(it, [i \in 1..Len(it) |-> count(pred, it, i)], 1, <<>>)

-----------------------------------------------------------------------------
(* The kernels of the build machine and what they answer *)

\* the kernels get_kernel_spec finds; any other name raises NoSuchKernel
KnownKernels == {"python3", "julia"}

NoLanguageInfo == [name |-> "", file_extension |-> "", pygments_lexer |-> ""]

\* the language_info of a kernel's kernel_info reply
KernelLanguageInfo(k) ==
    IF k = "python3"
    THEN [name |-> "python", file_extension |-> ".py", pygments_lexer |-> "ipython3"]
    ELSE [name |-> "julia", file_extension |-> ".jl", pygments_lexer |-> "julia"]

\* what the get_widget cell of extract_widget_state evaluates to: None
\* (ipywidgets missing in the kernel) or the manager state, whose 'state'
\* maps the ids of the widgets the notebook made
None == [none |-> TRUE, state |-> {}]
ManagerState(ids) == [none |-> FALSE, state |-> ids]
WidgetReplies == {None, ManagerState({}), ManagerState({"w1"})}
\* a notebook without cells has made no widget
WidgetRepliesOf(nb) ==
    IF nb.cells = <<>> THEN {None, ManagerState({})} ELSE WidgetReplies

-----------------------------------------------------------------------------
(* Cell outputs *)

\* terminal control sequences, as tokens of a text
AnsiCodes == {"ESC[0;31m", "ESC[0m"}

NoData == <<>>

Stream(name, text) ==
    [output_type |-> "stream", name |-> name, text |-> text,
     traceback |-> <<>>, data |-> NoData, filenames |-> <<>>]

Error(traceback) ==
    [output_type |-> "error", name |-> "", text |-> <<>>,
     traceback |-> traceback, data |-> NoData, filenames |-> <<>>]

\* data: the mime bundle, a sequence of <<mime type, value>> in insertion order
Display(type, data) ==
    [output_type |-> type, name |-> "", text |-> <<>>,
     traceback |-> <<>>, data |-> data, filenames |-> <<>>]

IsError(o) == o.output_type = "error"

\* x in output['data']
HasMime(data, x) == \E i \in 1..Len(data) : data[i][1] = x
\* output['data'][x]
MimeValue(data, x) == data[CHOOSE i \in 1..Len(data) : data[i][1] = x][2]

\* what a cell of a document may print when it is run
TracebackLines == << <<"ESC[0;31m", "ZeroDivisionError", "ESC[0m">>, <<"division by zero">> >>
CellOutputs ==
    { <<>>,
      <<Stream("stdout", <<"hello">>)>>,
      <<Error(TracebackLines)>> }

-----------------------------------------------------------------------------
(* Documents *)

KernelNames == {"", "julia", "bogus"}
KernelIds == {<<>>, <<"demo">>, <<"doc">>}

\* a jupyter-kernel directive names a kernel or gives an id; the two options
\* are read apart from each other (lines 230-231)
KernelNodes ==
    {JupyterKernelNode(k, <<>>) : k \in KernelNames}
    \cup {JupyterKernelNode("", id) : id \in KernelIds}
CellNodes == {JupyterCellNode(FALSE, ho, FALSE) : ho \in BOOLEAN}

Documents == UNION {[1..n -> KernelNodes \cup CellNodes] : n \in 0..MaxNodes}

\* config jupyter_execute_data_priority as setup registers it
WIDGET_VIEW_MIMETYPE == "application/vnd.jupyter.widget-view+json"
DefaultDataPriority ==
    <<WIDGET_VIEW_MIMETYPE, "text/html", "image/svg+xml", "image/png",
      "image/jpeg", "text/latex", "text/plain">>

NoNotebook ==
    [kernelspec |-> "", cells |-> <<>>, language_info |-> NoLanguageInfo,
     widgets |-> None]

\* a request to a kernel: what was asked, by which unit, for which cell (0:
\* none), and the widget ids of the answer to a widget state request
Event(ev, unit, cell) == [ev |-> ev, unit |-> unit, cell |-> cell, ids |-> {}]

Init ==
    /\ doc \in Documents
    /\ allow_errors \in BOOLEAN
    /\ priority = DefaultDataPriority
    /\ pc = "Idle"
    /\ groups = <<>>
    /\ gi = 0
    /\ next_default = 0
    /\ kernel_name = ""
    /\ file_name = <<>>
    /\ unit_names = <<>>
    /\ nodes = <<>>
    /\ notebook = NoNotebook
    /\ ci = 0
    /\ exc = ""
    /\ live = {}
    /\ log = <<>>
    /\ written = <<>>
    /\ children = [i \in 1..Len(doc) |->
                     IF IsCellNode(doc[i]) THEN <<SourceBlock>> ELSE <<>>]
    /\ widget_nodes = <<>>

-----------------------------------------------------------------------------
(* ExecuteJupyterCells.apply, up to the call of execute_cells *)

\* doctree.traverse(lambda n: isinstance(n, jupyter_nodes)): the nodes are
\* named by their position in the document
jupyter_nodes(d) == [i \in 1..Len(d) |-> i]

nodes_by_notebook(d) ==
    split_on({i \in 1..Len(d) : IsKernelNode(d[i])}, jupyter_nodes(d))

\* a slip the name generator could make: the counter left out of the name
default_notebook_names_same(basename, i) == basename

\* the i-th name (from 0) that default_notebook_names(basename) yields
default_notebook_names(basename, i) ==
    IF i = 0 THEN basename ELSE Join(<<"_">>, <<basename, Str(i)>>)

\* apply, from its start to the for loop
Apply ==
    /\ pc = "Idle"
    /\ IF ~ \E i \in 1..Len(doc) : IsCellNode(doc[i])
       THEN /\ pc' = "Done"
            /\ UNCHANGED groups
       ELSE /\ groups' = nodes_by_notebook(doc)
            /\ pc' = "NextUnit"
    /\ UNCHANGED <<doc, allow_errors, priority, gi, next_default,
                   kernel_name, file_name, unit_names, nodes, notebook, ci, exc, live,
                   log, written, children, widget_nodes>>

\* the head of the for loop: the next list of nodes, its kernel and its name
UsesDefaultName(first) == ~ IsKernelNode(first) \/ first.kernel_id = <<>>

NextUnit ==
    /\ pc = "NextUnit"
    /\ IF gi = Len(groups)
       THEN /\ pc' = "Done"
            /\ UNCHANGED <<gi, next_default, kernel_name, file_name, unit_names,
                           nodes>>
       ELSE LET group == groups[gi + 1]
                first == doc[group[1]]
            IN /\ gi' = gi + 1
               /\ IF IsKernelNode(first)
                  THEN /\ kernel_name' = (IF first.kernel_name # ""
                                          THEN first.kernel_name
                                          ELSE default_kernel)
                       /\ file_name' = (IF first.kernel_id # <<>>
                                        THEN first.kernel_id
                                        ELSE default_notebook_names(docname, next_default))
                       /\ nodes' = Tail(group)
                  ELSE /\ kernel_name' = default_kernel
                       /\ file_name' = default_notebook_names(docname, next_default)
                       /\ nodes' = group
               /\ next_default' = (IF UsesDefaultName(first)
                                   THEN next_default + 1 ELSE next_default)
               /\ unit_names' = Append(unit_names, file_name')
               /\ pc' = "execute_cells"
    /\ UNCHANGED <<doc, allow_errors, priority, groups, notebook, ci,
                   exc, live, log, written, children, widget_nodes>>

-----------------------------------------------------------------------------
(* execute_cells and executenb *)

\* position after n cells of the notebook have been executed
AfterCell(nb, n) == IF n = Len(nb.cells) THEN "language_info" ELSE "preprocess"

\* a slip in the configuration of the executor: allow_errors not passed on
CellRaises_strict(allow, outputs) ==
    \E i \in 1..Len(outputs) : IsError(outputs[i])

\* what ExecutePreprocessor.preprocess_cell does with a cell's outputs: with
\* allow_errors it carries on after an error output, without it it raises
CellRaises(allow, outputs) ==
    ~ allow /\ \E i \in 1..Len(outputs) : IsError(outputs[i])

\* blank_nb: the notebook for a kernel that get_kernel_spec finds
blank_nb(k) ==
    [kernelspec |-> k, cells |-> <<>>, language_info |-> NoLanguageInfo,
     widgets |-> None]

\* a slip execute_cells could make: the kernel name not looked up
BlankNb_unchecked ==
    /\ pc = "execute_cells"
    /\ notebook' = [blank_nb(kernel_name) EXCEPT
                      !.cells = [i \in 1..Len(nodes) |-> [outputs |-> <<>>]]]
    /\ ci' = 0
    /\ pc' = "setup_preprocessor"
    /\ UNCHANGED <<doc, allow_errors, priority, groups, gi, next_default,
                   kernel_name, file_name, unit_names, nodes, live, log,
                   written, children, widget_nodes, exc>>

\* execute_cells up to executenb: blank_nb and the assignment of the cells
BlankNb ==
    /\ pc = "execute_cells"
    /\ IF kernel_name \notin KnownKernels
       THEN /\ exc' = "ExtensionError: Unable to find kernel"
            /\ pc' = "Failed"
            /\ UNCHANGED <<notebook, ci>>
       ELSE /\ notebook' = [blank_nb(kernel_name) EXCEPT
                              !.cells = [i \in 1..Len(nodes) |-> [outputs |-> <<>>]]]
            /\ ci' = 0
            /\ pc' = "setup_preprocessor"
            /\ UNCHANGED exc
    /\ UNCHANGED <<doc, allow_errors, priority, groups, gi, next_default,
                   kernel_name, file_name, unit_names, nodes, live, log, written,
                   children, widget_nodes>>

\* entering 'with ep.setup_preprocessor(...)': the kernel starts, or fails to
SetupPreprocessor ==
    /\ pc = "setup_preprocessor"
    /\ \/ /\ live' = live \cup {gi}
          /\ log' = Append(log, Event("start", gi, 0))
          /\ pc' = AfterCell(notebook, 0)
          /\ UNCHANGED exc
       \/ /\ exc' = "ExtensionError: Notebook execution failed"
          /\ pc' = "Failed"
          /\ UNCHANGED <<live, log>>
    /\ UNCHANGED <<doc, allow_errors, priority, groups, gi, next_default,
                   kernel_name, file_name, unit_names, nodes, notebook, ci, written,
                   children, widget_nodes>>

\* ExecutePreprocessor.preprocess, one cell: the kernel runs it and answers
\* with its outputs, or dies or times out
PreprocessCell ==
    /\ pc = "preprocess"
    /\ log' = Append(log, Event("run", gi, ci + 1))
    /\ \/ \E outputs \in CellOutputs :
            /\ notebook' = [notebook EXCEPT !.cells[ci + 1].outputs = outputs]
            /\ ci' = ci + 1
            /\ IF CellRaises(allow_errors, outputs)
               THEN /\ exc' = "CellExecutionError"
                    /\ pc' = "exit"
               ELSE /\ pc' = AfterCell(notebook, ci + 1)
                    /\ UNCHANGED exc
       \/ /\ exc' = "DeadKernelError"
          /\ pc' = "exit"
          /\ UNCHANGED <<notebook, ci>>
    /\ UNCHANGED <<doc, allow_errors, priority, groups, gi, next_default,
                   kernel_name, file_name, unit_names, nodes, live, written, children,
                   widget_nodes>>

\* nb.metadata.language_info = language_info(ep)
LanguageInfo ==
    /\ pc = "language_info"
    /\ log' = Append(log, Event("kernel_info", gi, 0))
    /\ \/ /\ notebook' = [notebook EXCEPT
                            !.language_info = KernelLanguageInfo(kernel_name)]
          /\ pc' = "extract_widget_state"
          /\ UNCHANGED exc
       \/ /\ exc' = "DeadKernelError"
          /\ pc' = "exit"
          /\ UNCHANGED notebook
    /\ UNCHANGED <<doc, allow_errors, priority, groups, gi, next_default,
                   kernel_name, file_name, unit_names, nodes, ci, live, written, children,
                   widget_nodes>>

\* a slip extract_widget_state could make: the get_widget cell run in every
\* kernel, whatever its language
ExtractWidgetState_any_language ==
    /\ pc = "extract_widget_state"
    /\ \E widgets \in WidgetRepliesOf(notebook) :
          /\ log' = log \o <<Event("kernel_info", gi, 0),
                             [Event("widget_state", gi, 0) EXCEPT !.ids = widgets.state]>>
          /\ notebook' = (IF ~ widgets.none
                          THEN [notebook EXCEPT !.widgets = widgets]
                          ELSE notebook)
    /\ pc' = "exit"
    /\ UNCHANGED <<doc, allow_errors, priority, groups, gi, next_default,
                   kernel_name, file_name, unit_names, nodes, ci, exc, live, written,
                   children, widget_nodes>>

\* widgets = extract_widget_state(ep); if widgets: nb.metadata.widgets = ...
\* extract_widget_state asks language_info(executor) itself, and runs its
\* get_widget cell only in a python kernel
ExtractWidgetState ==
    /\ pc = "extract_widget_state"
    /\ \/ /\ log' = Append(log, Event("kernel_info", gi, 0))
          /\ exc' = "DeadKernelError"
          /\ UNCHANGED notebook
       \/ /\ KernelLanguageInfo(kernel_name).name # "python"
          /\ log' = Append(log, Event("kernel_info", gi, 0))
          /\ UNCHANGED <<notebook, exc>>
       \/ /\ KernelLanguageInfo(kernel_name).name = "python"
          /\ \/ \E widgets \in WidgetRepliesOf(notebook) :
                  /\ log' = log \o <<Event("kernel_info", gi, 0),
                                     [Event("widget_state", gi, 0)
                                        EXCEPT !.ids = widgets.state]>>
                  /\ notebook' = (IF ~ widgets.none
                                  THEN [notebook EXCEPT !.widgets = widgets]
                                  ELSE notebook)
                  /\ UNCHANGED exc
             \/ /\ log' = log \o <<Event("kernel_info", gi, 0),
                                   Event("widget_state", gi, 0)>>
                /\ exc' = "DeadKernelError"
                /\ UNCHANGED notebook
    /\ pc' = "exit"
    /\ UNCHANGED <<doc, allow_errors, priority, groups, gi, next_default,
                   kernel_name, file_name, unit_names, nodes, ci, live, written, children,
                   widget_nodes>>

\* a slip the teardown could make: the kernel shut down only on the normal
\* exit of the block
ExitPreprocessor_leak ==
    /\ pc = "exit"
    /\ live' = (IF exc # "" THEN live ELSE live \ {gi})
    /\ log' = (IF exc # "" THEN log ELSE Append(log, Event("shutdown", gi, 0)))
    /\ IF exc # ""
       THEN /\ exc' = "ExtensionError: Notebook execution failed"
            /\ pc' = "Failed"
       ELSE /\ pc' = "write_notebook_output"
            /\ UNCHANGED exc
    /\ UNCHANGED <<doc, allow_errors, priority, groups, gi, next_default,
                   kernel_name, file_name, unit_names, nodes, notebook, ci,
                   written, children, widget_nodes>>

\* leaving the with block, normally or by an exception: the kernel is shut
\* down; execute_cells then returns the notebook or raises ExtensionError
ExitPreprocessor ==
    /\ pc = "exit"
    /\ live' = live \ {gi}
    /\ log' = Append(log, Event("shutdown", gi, 0))
    /\ IF exc # ""
       THEN /\ exc' = "ExtensionError: Notebook execution failed"
            /\ pc' = "Failed"
       ELSE /\ pc' = "write_notebook_output"
            /\ UNCHANGED exc
    /\ UNCHANGED <<doc, allow_errors, priority, groups, gi, next_default,
                   kernel_name, file_name, unit_names, nodes, notebook, ci, written,
                   children, widget_nodes>>

-----------------------------------------------------------------------------
(* write_notebook_output *)

\* os.path.join(output_directory(env), doc_relpath), an absolute path
output_dir == <<"/build/jupyter_execute">>

\* ExtractOutputPreprocessor.extract_output_types, with their extensions
ExtractedTypes == <<"image/png", "image/jpeg", "image/svg+xml", "application/pdf">>
Extension(mime) ==
    CASE mime = "image/png" -> <<".png">>
      [] mime = "image/jpeg" -> <<".jpeg">>
      [] mime = "image/svg+xml" -> <<".svg">>
      [] OTHER -> <<".pdf">>

IsDisplay(o) == o.output_type \in {"display_data", "execute_result"}

\* output_filename_template: {unique_key}_{cell_index}_{index}{extension}
OutputFilename(unique_key, c, o, mime) ==
    unique_key \o <<"_">> \o Str(c) \o <<"_">> \o Str(o) \o Extension(mime)

\* the mime types of an output that ExtractOutputPreprocessor saves to files
Extracted(out) ==
    SelectSeq(ExtractedTypes, LAMBDA m : IsDisplay(out) /\ HasMime(out.data, m))

\* output.metadata['filenames'] after ExtractOutputPreprocessor
Filenames(unique_key, c, o, out) ==
    LET types == Extracted(out)
    IN [k \in 1..Len(types) |-> <<types[k], OutputFilename(unique_key, c, o, types[k])>>]

\* the notebook with the filenames in the metadata of its outputs
ExtractOutput(nb, unique_key) ==
    [nb EXCEPT !.cells =
        [c \in 1..Len(nb.cells) |->
            [outputs |->
                [o \in 1..Len(nb.cells[c].outputs) |->
                    [nb.cells[c].outputs[o] EXCEPT
                        !.filenames = Filenames(unique_key, c - 1, o - 1,
                                                nb.cells[c].outputs[o])]]]]]

RECURSIVE Flatten(_)
Flatten(ss) == IF ss = <<>> THEN <<>> ELSE Head(ss) \o Flatten(Tail(ss))

\* resources['outputs']: the files of the extracted outputs
OutputFiles(nb, unique_key) ==
    Flatten([c \in 1..Len(nb.cells) |->
        Flatten([o \in 1..Len(nb.cells[c].outputs) |->
            LET names == Filenames(unique_key, c - 1, o - 1, nb.cells[c].outputs[o])
            IN [k \in 1..Len(names) |-> names[k][2]]])])

\* a slip write_notebook_output could make: nothing written for a notebook
\* that has no cells
write_notebook_output_nonempty(nb, dir, notebook_name) ==
    IF nb.cells = <<>> THEN <<>>
    ELSE OutputFiles(nb, PathJoin(dir, notebook_name))
         \o <<PathJoin(dir, notebook_name \o <<".ipynb">>),
              PathJoin(dir, notebook_name \o <<nb.language_info.file_extension>>)>>

\* the paths write_notebook_output writes, in the order it writes them: the
\* extracted outputs and the notebook (FilesWriter), then the script
write_notebook_output(nb, dir, notebook_name) ==
    OutputFiles(nb, PathJoin(dir, notebook_name))
    \o <<PathJoin(dir, notebook_name \o <<".ipynb">>),
         PathJoin(dir, notebook_name \o <<nb.language_info.file_extension>>)>>

\* the first n of the files, as written for unit
Record(files, n, unit) == [k \in 1..n |-> [unit |-> unit, path |-> files[k]]]

\* lines 244-247: the source of each cell is given the notebook's lexer
Highlight(ch, ns, lexer) ==
    [i \in DOMAIN ch |->
        IF (\E k \in 1..Len(ns) : ns[k] = i) /\ ch[i] # <<>>
        THEN [ch[i] EXCEPT ![1].attr = lexer]
        ELSE ch[i]]

\* the highlighting of the unit's cells, then write_notebook_output, which
\* may fail after any number of its files has been written
WriteNotebookOutput ==
    /\ pc = "write_notebook_output"
    /\ children' = Highlight(children, nodes, notebook.language_info.pygments_lexer)
    /\ notebook' = ExtractOutput(notebook, PathJoin(output_dir, file_name))
    /\ LET files == write_notebook_output(notebook, output_dir, file_name)
       IN \/ /\ written' = written \o Record(files, Len(files), gi)
             /\ pc' = "render"
             /\ UNCHANGED exc
          \/ \E n \in 0..(Len(files) - 1) :
                /\ written' = written \o Record(files, n, gi)
                /\ exc' = "OSError"
                /\ pc' = "Failed"
    /\ UNCHANGED <<doc, allow_errors, priority, groups, gi, next_default,
                   kernel_name, file_name, unit_names, nodes, ci, live, log, widget_nodes>>

-----------------------------------------------------------------------------
(* cell_output_to_nodes and attach_outputs *)

\* Sphinx "absolute path" of the output folder: relative to the source
\* directory and prefixed with '/'
sphinx_abs_dir == <<"/../build/jupyter_execute">>

\* how Sphinx resolves such a path: against the source directory
relfn2path(path) ==
    IF path # <<>> /\ path[1] = sphinx_abs_dir[1]
    THEN output_dir \o Tail(path)
    ELSE path

\* os.path.basename
RECURSIVE basename(_)
basename(path) ==
    IF \E i \in 1..Len(path) : path[i] = "/" THEN basename(Tail(path)) ELSE path

\* nbconvert.filters.strip_ansi
strip_ansi(text) == SelectSeq(text, LAMBDA t : t \notin AnsiCodes)

\* mime_type.startswith('image'), over the mime types of the model
IsImage(mime) == mime \in {"image/svg+xml", "image/png", "image/jpeg", "image/gif"}

Fragment(kind, text, attr) == [kind |-> kind, text |-> text, attr |-> attr]

\* a slip the selection could make: the first mime type of the output's own
\* data that the priority list holds
select_mime_by_data(data_priority, data) ==
    LET hits == {i \in 1..Len(data) :
                    \E k \in 1..Len(data_priority) : data_priority[k] = data[i][1]}
    IN IF hits = {} THEN <<>>
       ELSE <<data[CHOOSE i \in hits : \A j \in hits : i <= j][1]>>

\* next(x for x in data_priority if x in output['data']): the mime type as a
\* one-element sequence, or <<>> for StopIteration
select_mime(data_priority, data) ==
    LET hits == {k \in 1..Len(data_priority) : HasMime(data, data_priority[k])}
    IN IF hits = {} THEN <<>>
       ELSE <<data_priority[CHOOSE k \in hits : \A j \in hits : k <= j]>>

\* output.metadata['filenames'][mime_type] raises KeyError for an image that
\* ExtractOutputPreprocessor did not save
OutputRaises(output, data_priority) ==
    /\ IsDisplay(output)
    /\ LET sel == select_mime(data_priority, output.data)
       IN /\ sel # <<>>
          /\ IsImage(sel[1])
          /\ ~ HasMime(output.filenames, sel[1])

\* a slip the loop body could make: the name of the stream not looked at
output_to_nodes_any_stream(output, data_priority, dir) ==
    IF output.output_type = "stream"
    THEN <<Fragment("literal_block", output.text, "")>>
    ELSE IF output.output_type = "error"
    THEN <<Fragment("literal_block",
                    strip_ansi(Join(<<"\n">>, output.traceback)), "ipythontb")>>
    ELSE IF IsDisplay(output)
    THEN LET sel == select_mime(data_priority, output.data)
         IN IF sel = <<>> THEN <<>>
            ELSE LET mime_type == sel[1]
                     data == MimeValue(output.data, mime_type)
                 IN IF IsImage(mime_type)
                    THEN <<Fragment("image",
                              PathJoin(dir, basename(MimeValue(output.filenames, mime_type))),
                              "")>>
                    ELSE IF mime_type = "text/html"
                    THEN <<Fragment("raw", data, "html")>>
                    ELSE IF mime_type = "text/latex"
                    THEN <<Fragment("displaymath", data, "")>>
                    ELSE IF mime_type = "text/plain"
                    THEN <<Fragment("literal_block", data, "")>>
                    ELSE IF mime_type = WIDGET_VIEW_MIMETYPE
                    THEN <<Fragment("JupyterWidgetViewNode", data, "")>>
                    ELSE <<>>
    ELSE <<>>

\* the body of the loop of cell_output_to_nodes: what one output adds to to_add
output_to_nodes(output, data_priority, dir) ==
    IF output.output_type = "stream" /\ output.name = "stdout"
    THEN <<Fragment("literal_block", output.text, "")>>
    ELSE IF output.output_type = "error"
    THEN <<Fragment("literal_block",
                    strip_ansi(Join(<<"\n">>, output.traceback)), "ipythontb")>>
    ELSE IF IsDisplay(output)
    THEN LET sel == select_mime(data_priority, output.data)
         IN IF sel = <<>> THEN <<>>
            ELSE LET mime_type == sel[1]
                     data == MimeValue(output.data, mime_type)
                 IN IF IsImage(mime_type)
                    THEN <<Fragment("image",
                              PathJoin(dir, basename(MimeValue(output.filenames, mime_type))),
                              "")>>
                    ELSE IF mime_type = "text/html"
                    THEN <<Fragment("raw", data, "html")>>
                    ELSE IF mime_type = "text/latex"
                    THEN <<Fragment("displaymath", data, "")>>
                    ELSE IF mime_type = "text/plain"
                    THEN <<Fragment("literal_block", data, "")>>
                    ELSE IF mime_type = WIDGET_VIEW_MIMETYPE
                    THEN <<Fragment("JupyterWidgetViewNode", data, "")>>
                    ELSE <<>>
    ELSE <<>>

cell_output_to_nodes(cell, data_priority, dir) ==
    Flatten([i \in 1..Len(cell.outputs) |->
                output_to_nodes(cell.outputs[i], data_priority, dir)])

CellRaisesKeyError(cell, data_priority) ==
    \E i \in 1..Len(cell.outputs) : OutputRaises(cell.outputs[i], data_priority)

\* the children of node after attach_outputs(output_nodes, node)
attach_outputs(output_nodes, node, node_children) ==
    LET kept == IF node.hide_code THEN <<>> ELSE node_children
    IN IF ~ node.hide_output
       THEN IF node.code_below THEN output_nodes \o kept ELSE kept \o output_nodes
       ELSE kept

get_widgets(nb) == nb.widgets

\* a slip contains_widgets could make: the 'state' of the widgets not looked at
contains_widgets_any(nb) == ~ get_widgets(nb).none
contains_widgets(nb) == ~ get_widgets(nb).none /\ get_widgets(nb).state # {}

\* the rest of the loop body of apply: the outputs of each cell are converted
\* and attached, then the widget state of the notebook is appended
Render ==
    /\ pc = "render"
    /\ LET raising == {k \in 1..Len(nodes) :
                          CellRaisesKeyError(notebook.cells[k], priority)}
           stop == IF raising = {} THEN Len(nodes) + 1
                   ELSE CHOOSE k \in raising : \A j \in raising : k <= j
           Pos(i) == CHOOSE k \in 1..Len(nodes) : nodes[k] = i
       IN /\ children' =
               [i \in DOMAIN children |->
                   IF \E k \in 1..(stop - 1) : nodes[k] = i
                   THEN attach_outputs(
                            cell_output_to_nodes(notebook.cells[Pos(i)],
                                                 priority, sphinx_abs_dir),
                            doc[i], children[i])
                   ELSE children[i]]
          /\ IF raising # {}
             THEN /\ exc' = "KeyError"
                  /\ pc' = "Failed"
                  /\ UNCHANGED widget_nodes
             ELSE /\ widget_nodes' = (IF contains_widgets(notebook)
                                      THEN Append(widget_nodes, get_widgets(notebook))
                                      ELSE widget_nodes)
                  /\ pc' = "NextUnit"
                  /\ UNCHANGED exc
    /\ UNCHANGED <<doc, allow_errors, priority, groups, gi, next_default,
                   kernel_name, file_name, unit_names, nodes, notebook, ci, live, log,
                   written>>

-----------------------------------------------------------------------------
(* jupyter_download_role *)

\* the reftarget of the download_reference the role builds
jupyter_download_role(name, text) ==
    LET filetype == IF name = "jupyter-download:notebook" THEN "notebook" ELSE "script"
        ext == IF filetype = "notebook" THEN <<".ipynb">> ELSE <<".py">>
        download_file == text \o ext
    IN PathJoin(sphinx_abs_dir, download_file)

-----------------------------------------------------------------------------
(* The transform on a document *)

Next ==
    \/ Apply
    \/ NextUnit
    \/ BlankNb
    \/ SetupPreprocessor
    \/ PreprocessCell
    \/ LanguageInfo
    \/ ExtractWidgetState
    \/ ExitPreprocessor
    \/ WriteNotebookOutput
    \/ Render

Spec == Init /\ [][Next]_vars

-----------------------------------------------------------------------------
(* Vocabulary of the properties *)

Units == 1..Len(groups)

\* unit g is a kernel node followed by no cell
EmptyUnit(g) == Len(groups[g]) = 1 /\ IsKernelNode(doc[groups[g][1]])

\* unit g has an explicit id
HasId(g) == IsKernelNode(doc[groups[g][1]]) /\ doc[groups[g][1]].kernel_id # <<>>

\* the kernel requests of kind ev made for unit g, in order
EventsOf(ev, g) == SelectSeq(log, LAMBDA e : e.ev = ev /\ e.unit = g)

\* the paths written for unit g, in order
PathsOf(g) ==
    LET mine == SelectSeq(written, LAMBDA w : w.unit = g)
    IN [k \in 1..Len(mine) |-> mine[k].path]

InSeq(x, s) == \E k \in 1..Len(s) : s[k] = x

\* write_notebook_output has returned for unit g
IsWritten(g) == gi > g \/ (gi = g /\ pc \in {"render", "NextUnit", "Done"})

Markers == {i \in 1..Len(doc) : IsKernelNode(doc[i])}

-----------------------------------------------------------------------------
(* C1: a kernel node followed by no cell *)

\* C1 as claimed: a selector marker followed by no code block produces no
\* execution unit: no session is started for it and no file is written for it
C1_EmptyUnitSkipped ==
    \A g \in Units :
        EmptyUnit(g) => EventsOf("start", g) = <<>> /\ PathsOf(g) = <<>>

\* C1 as amended: a selector marker followed by no code block is a unit of
\* its own with no cells: it takes a name (its id, or the next default name),
\* and once apply is past it one kernel has been started for it, no cell was
\* run in it, and its notebook and script have been written under its name
C1_EmptyUnitExecuted ==
    \A g \in Units :
        EmptyUnit(g) /\ IsWritten(g) =>
            /\ unit_names[g] # <<>>
            /\ HasId(g) => unit_names[g] = doc[groups[g][1]].kernel_id
            /\ Len(EventsOf("start", g)) = 1
            /\ Len(EventsOf("shutdown", g)) = 1
            /\ EventsOf("run", g) = <<>>
            /\ InSeq(PathJoin(output_dir, unit_names[g] \o <<".ipynb">>), PathsOf(g))
            /\ Len(PathsOf(g)) = 2

\* both kinds of empty unit, with and without id, have been executed
C1_Witness ==
    /\ pc = "Done"
    /\ \E g, h \in Units :
          /\ EmptyUnit(g) /\ HasId(g) /\ IsWritten(g)
          /\ EmptyUnit(h) /\ ~ HasId(h) /\ IsWritten(h)

-----------------------------------------------------------------------------
(* C2: split_on is an order-preserving partition *)

\* C2: once apply has grouped the nodes, the groups concatenated are the
\* node sequence, no group is empty, a kernel node is only ever the first of
\* its group, and there is one group per kernel node, plus one when the
\* document starts with cells
C2_SplitOnPartition ==
    pc # "Idle" /\ groups # <<>> =>
        /\ Flatten(groups) = jupyter_nodes(doc)
        /\ \A g \in Units :
              /\ groups[g] # <<>>
              /\ \A k \in 2..Len(groups[g]) : IsCellNode(doc[groups[g][k]])
        /\ Len(groups) = Cardinality(Markers) + (IF IsCellNode(doc[1]) THEN 1 ELSE 0)
        /\ (Markers = {} => groups = <<jupyter_nodes(doc)>>)

\* a leading run of cells, then a kernel node with cells: two units
C2_Witness ==
    /\ Len(groups) = 2
    /\ IsCellNode(doc[1])
    /\ Cardinality(Markers) = 1
    /\ Len(groups[2]) = 2

-----------------------------------------------------------------------------
(* C3: unit names *)

\* C3 as claimed: no two units of a document get the same file_name (stated
\* of the units that hold a cell)
C3_NamesUnique ==
    \A g, h \in 1..Len(unit_names) :
        g # h /\ ~ EmptyUnit(g) /\ ~ EmptyUnit(h) => unit_names[g] # unit_names[h]

\* C3 as amended: a unit with an explicit id is named by it verbatim, the
\* units without one are named docname, docname_1, ... in order, no two of
\* these share a name, and no two of these write the same path
C3_DefaultNamesUnique ==
    LET n == Len(unit_names)
        Default(g) == ~ HasId(g)
        Rank(g) == Cardinality({h \in 1..(g - 1) : Default(h)})
    IN /\ \A g \in 1..n :
            /\ HasId(g) => unit_names[g] = doc[groups[g][1]].kernel_id
            /\ Default(g) =>
                  unit_names[g] = (IF Rank(g) = 0 THEN <<"doc">>
                                   ELSE <<"doc", "_", Digits[Rank(g) + 1]>>)
       /\ \A g, h \in 1..n :
            g # h /\ Default(g) /\ Default(h) =>
                /\ unit_names[g] # unit_names[h]
                /\ \A p \in 1..Len(PathsOf(g)), q \in 1..Len(PathsOf(h)) :
                      PathsOf(g)[p] # PathsOf(h)[q]

\* two units named from the default sequence have both written their files
C3_Witness ==
    \E g, h \in 1..Len(unit_names) :
        /\ g # h /\ ~ HasId(g) /\ ~ HasId(h)
        /\ IsWritten(g) /\ IsWritten(h)

-----------------------------------------------------------------------------
(* C5: a cell that raises, with allow_errors *)

\* the traceback of TracebackLines as it is to be shown: the lines joined by
\* newlines, without the control codes
ShownTraceback == <<"ZeroDivisionError", "\n", "division by zero">>

\* the cells of the current unit have all been run
PastCells ==
    /\ gi >= 1
    /\ \/ pc \in {"language_info", "extract_widget_state",
                  "write_notebook_output", "render", "NextUnit", "Done"}
       \/ pc = "exit" /\ exc = ""

\* C5: with allow_errors, an error output never makes the execution of the
\* notebook fail; every cell of the unit is run, in source order, whatever
\* the cells before it printed; and once the unit is rendered, each error
\* output is attached at its place as one literal_block in the traceback
\* language whose text is the traceback lines joined by newlines with the
\* control codes removed
C5_ErrorsDoNotStop ==
    allow_errors =>
        /\ exc # "CellExecutionError"
        /\ PastCells =>
              /\ Len(EventsOf("run", gi)) = Len(nodes)
              /\ \A k \in 1..Len(nodes) : EventsOf("run", gi)[k].cell = k
        /\ pc = "NextUnit" /\ gi >= 1 =>
              \A k \in 1..Len(nodes) :
                  LET outputs == notebook.cells[k].outputs
                      shown == children[nodes[k]]
                  IN \A p \in 1..Len(outputs) :
                        IsError(outputs[p]) /\ ~ doc[nodes[k]].hide_output =>
                            /\ Len(shown) = 1 + Len(outputs)
                            /\ shown[1 + p] =
                                 Fragment("literal_block", ShownTraceback, "ipythontb")

\* a unit of two cells is rendered whose first cell raised and whose second
\* cell printed
C5_Witness ==
    /\ allow_errors
    /\ pc = "NextUnit"
    /\ Len(nodes) = 2
    /\ notebook.cells[1].outputs = <<Error(TracebackLines)>>
    /\ notebook.cells[2].outputs = <<Stream("stdout", <<"hello">>)>>
    /\ Len(children[nodes[1]]) = 2
    /\ Len(children[nodes[2]]) = 2

-----------------------------------------------------------------------------
(* C6: one kernel per unit, always shut down *)

InWithBlock == pc \in {"preprocess", "language_info", "extract_widget_state", "exit"}

\* C6: a kernel runs exactly while apply is inside executenb's with block,
\* and it is the kernel of the current unit; per unit at most one kernel is
\* started, every request to a kernel of a unit is made between the start and
\* the shutdown of that unit's kernel, a unit whose execution has ended
\* (returned or raised after the start) has had one start and one shutdown,
\* and no kernel runs when apply is done or has failed
C6_SessionPerUnit ==
    /\ live = (IF InWithBlock THEN {gi} ELSE {})
    /\ \A g \in Units :
          /\ Len(EventsOf("start", g)) <= 1
          /\ Len(EventsOf("shutdown", g)) =
                (IF g \in live THEN 0 ELSE Len(EventsOf("start", g)))
          /\ IsWritten(g) \/ (gi = g /\ pc = "write_notebook_output") =>
                Len(EventsOf("start", g)) = 1
    /\ \A i \in 1..Len(log) :
          log[i].ev # "start" =>
              /\ \E j \in 1..(i - 1) : log[j].ev = "start" /\ log[j].unit = log[i].unit
              /\ \A j \in 1..(i - 1) :
                    ~ (log[j].ev = "shutdown" /\ log[j].unit = log[i].unit)

\* the kernel of the second unit died while running a cell and was shut down
C6_Witness ==
    /\ pc = "Failed"
    /\ gi = 2
    /\ Len(EventsOf("run", 2)) >= 1
    /\ Len(EventsOf("shutdown", 1)) = 1
    /\ Len(EventsOf("shutdown", 2)) = 1
    /\ Len(EventsOf("kernel_info", 2)) = 0

-----------------------------------------------------------------------------
(* C7: widget state nodes *)

\* apply is past the rendering of unit g
IsRendered(g) == gi > g \/ (gi = g /\ pc \in {"NextUnit", "Done"})

\* the units rendered so far whose kernel answered with a non-empty state
WidgetUnits ==
    {g \in Units :
        IsRendered(g) /\ \E i \in 1..Len(log) :
            log[i].ev = "widget_state" /\ log[i].unit = g /\ log[i].ids # {}}

\* C7 as claimed: at most one widget state node in the document, and when
\* apply is done exactly one if some unit had widget state
C7_OneWidgetStateNode ==
    /\ Len(widget_nodes) <= 1
    /\ pc = "Done" => Len(widget_nodes) = (IF WidgetUnits # {} THEN 1 ELSE 0)

\* C7 as amended: the document holds one widget state node per rendered unit
\* whose notebook has a non-empty widget state, each holding the state of
\* its unit, and none for the other units
C7_WidgetStateNodePerUnit ==
    /\ Len(widget_nodes) = Cardinality(WidgetUnits)
    /\ \A k \in 1..Len(widget_nodes) :
          ~ widget_nodes[k].none /\ widget_nodes[k].state # {}

\* two units with widgets: two widget state nodes
C7_Witness == pc = "Done" /\ Len(widget_nodes) = 2

-----------------------------------------------------------------------------
(* C8: the download role and the files written *)

\* C8: for every unit with cells whose files are written, the notebook reference and
\* the script reference of the download role, given the unit's name, resolve
\* to files written for that unit
C8_DownloadResolves ==
    \A g \in Units :
        IsWritten(g) /\ ~ EmptyUnit(g) =>
            /\ InSeq(relfn2path(jupyter_download_role("jupyter-download:notebook",
                                                      unit_names[g])),
                     PathsOf(g))
            /\ InSeq(relfn2path(jupyter_download_role("jupyter-download:script",
                                                      unit_names[g])),
                     PathsOf(g))

-----------------------------------------------------------------------------
(* C10: a failing unit stops apply *)

\* no output is attached to cell node i
NoOutputs(i) == Len(children[i]) = 1 /\ children[i][1].text = SourceBlock.text

\* C10: an exception is never dropped; an unknown kernel name fails the unit
\* before any kernel is started; and when apply has failed in executing or
\* writing unit gi, nothing more happens: no later unit has been named,
\* executed or written, and no cell of unit gi or of a later unit has outputs
C10_FailureStops ==
    /\ exc # "" => pc \in {"exit", "Failed"}
    /\ gi >= 1 /\ kernel_name \notin KnownKernels =>
          /\ pc \in {"execute_cells", "Failed"}
          /\ EventsOf("start", gi) = <<>>
    /\ pc = "Failed" =>
          /\ exc # ""
          /\ ~ ENABLED Next
          /\ Len(unit_names) = gi
          /\ \A i \in 1..Len(log) : log[i].unit <= gi
          /\ \A i \in 1..Len(written) : written[i].unit <= gi
          /\ \A g \in gi..Len(groups) : \A k \in 1..Len(groups[g]) :
                IsCellNode(doc[groups[g][k]]) => NoOutputs(groups[g][k])

\* the write of the first of several units failed half way
C10_Witness ==
    /\ pc = "Failed"
    /\ exc = "OSError"
    /\ gi = 1
    /\ Len(groups) > 1
    /\ Len(written) = 1

-----------------------------------------------------------------------------
(* The rendering of one cell, for any outputs and any priority list *)

MaxMimes == 2        \* mime types in the data of a display output

Mimes == {"text/html", "image/png", "text/plain"}

\* the value of each mime type in a mime bundle
MimeData(m) ==
    CASE m = "text/html" -> <<"<b>", "bold", "</b>">>
      [] m = "image/png" -> <<"iVBORw0KGgo=">>
      [] OTHER -> <<"plain">>

\* the sequences without repetition of at most n mime types
MimeLists(n) ==
    {s \in UNION {[1..k -> Mimes] : k \in 0..n} :
        \A i, j \in 1..Len(s) : i # j => s[i] # s[j]}

\* the mime bundles displayed: the empty one, an image alone, and bundles
\* whose own order differs from the order of the priority lists
BundleTypes ==
    {<<>>, <<"image/png">>, <<"text/plain", "image/png">>, <<"text/html", "text/plain">>,
     <<"text/plain", "text/html", "image/png">>}

Bundles ==
    {[i \in 1..Len(s) |-> <<s[i], MimeData(s[i])>>] :
        s \in {t \in BundleTypes : Len(t) <= MaxMimes}}

\* the outputs a cell may have: what it prints on either stream (control
\* codes included), a traceback, what it displays, and the value of its
\* last expression
Payloads ==
    {Stream("stdout", <<"ESC[0;31m", "out", "\n">>), Stream("stderr", <<"warn", "\n">>),
     Error(TracebackLines)}
    \cup {Display("display_data", b) : b \in Bundles}
    \cup {Display("execute_result", <<<<"text/plain", MimeData("text/plain")>>>>)}

RenderedOutputs == UNION {[1..n -> Payloads] : n \in 0..MaxOutputs}

RenderedCellNodes ==
    {JupyterCellNode(FALSE, FALSE, FALSE), JupyterCellNode(FALSE, FALSE, TRUE),
     JupyterCellNode(TRUE, FALSE, FALSE), JupyterCellNode(FALSE, TRUE, FALSE)}

\* apply at the rendering of a document of one cell, run in the default
\* kernel, whose outputs are written
InitRender ==
    /\ doc \in [1..1 -> RenderedCellNodes]
    /\ allow_errors = TRUE
    /\ priority \in MimeLists(MaxPriority)
    /\ pc = "render"
    /\ groups = << <<1>> >>
    /\ gi = 1
    /\ next_default = 1
    /\ kernel_name = default_kernel
    /\ file_name = default_notebook_names(docname, 0)
    /\ unit_names = <<file_name>>
    /\ nodes = <<1>>
    /\ \E outputs \in RenderedOutputs :
          LET nb == [blank_nb(kernel_name) EXCEPT
                        !.cells = <<[outputs |-> outputs]>>,
                        !.language_info = KernelLanguageInfo(kernel_name)]
              files == write_notebook_output(nb, output_dir, file_name)
          IN /\ notebook = ExtractOutput(nb, PathJoin(output_dir, file_name))
             /\ written = Record(files, Len(files), 1)
    /\ ci = 1
    /\ exc = ""
    /\ live = {}
    /\ log = <<Event("start", 1, 0), Event("run", 1, 1), Event("kernel_info", 1, 0),
               Event("kernel_info", 1, 0), Event("widget_state", 1, 0),
               Event("shutdown", 1, 0)>>
    /\ children = Highlight(<<<<SourceBlock>>>>, nodes,
                            notebook.language_info.pygments_lexer)
    /\ widget_nodes = <<>>

SpecRender == InitRender /\ [][Render]_vars

\* the cell of SpecRender, once rendered
IsShown == pc = "NextUnit" /\ gi = 1 /\ ~ doc[1].hide_output

\* the output nodes attached to it: its children but the source it keeps
Attached ==
    LET kept == IF doc[1].hide_code THEN 0 ELSE 1
        n == Len(children[1])
    IN IF doc[1].code_below
       THEN SubSeq(children[1], 1, n - kept)
       ELSE SubSeq(children[1], kept + 1, n)

Outputs == notebook.cells[1].outputs

\* the mime types of the priority list that output o holds
Offered(o) == {k \in 1..Len(priority) : HasMime(o.data, priority[k])}

\* how many nodes an output is to give: none for a display output that holds
\* no mime type of the priority list and for a stream other than stdout
Shown(o) ==
    IF o.output_type = "stream" THEN (IF o.name = "stdout" THEN 1 ELSE 0)
    ELSE IF IsDisplay(o) THEN (IF Offered(o) = {} THEN 0 ELSE 1)
    ELSE 1

RECURSIVE ShownBefore(_)
ShownBefore(i) == IF i <= 1 THEN 0 ELSE ShownBefore(i - 1) + Shown(Outputs[i - 1])

\* the kind of node a mime type of Mimes is shown as
KindOf(m) ==
    CASE m = "text/html" -> "raw"
      [] m = "image/png" -> "image"
      [] OTHER -> "literal_block"

-----------------------------------------------------------------------------
(* C4: the mime type of a display output *)

\* C4: for every display output the node attached at its place shows the
\* first mime type of the priority list that the output holds, whatever the
\* order of the output's own data; an output that holds none of the list
\* gives no node, and the outputs after it are rendered at their places
C4_FirstByPriority ==
    IsShown =>
        /\ Len(Attached) = ShownBefore(Len(Outputs) + 1)
        /\ \A i \in 1..Len(Outputs) :
              IsDisplay(Outputs[i]) /\ Offered(Outputs[i]) # {} =>
                  LET first == CHOOSE k \in Offered(Outputs[i]) :
                                   \A j \in Offered(Outputs[i]) : k <= j
                      mime == priority[first]
                      node == Attached[ShownBefore(i) + 1]
                  IN /\ node.kind = KindOf(mime)
                     /\ mime # "image/png" => node.text = MimeData(mime)
                     /\ mime = "image/png" =>
                           relfn2path(node.text) = MimeValue(Outputs[i].filenames, mime)

\* the priority list is html, png, plain; the output holds plain and png, in
\* this order, and an output that holds none of the list precedes it: the
\* one node attached is the image
C4_Witness ==
    /\ IsShown
    /\ priority = <<"text/html", "image/png", "text/plain">>
    /\ Len(Outputs) = 2
    /\ IsDisplay(Outputs[1]) /\ Outputs[1].data = <<>>
    /\ IsDisplay(Outputs[2])
    /\ Len(Outputs[2].data) = 2
    /\ Outputs[2].data[1][1] = "text/plain"
    /\ Outputs[2].data[2][1] = "image/png"
    /\ Len(Attached) = 1
    /\ Attached[1].kind = "image"

-----------------------------------------------------------------------------
(* C9: stream outputs *)

\* the stream outputs among the first i outputs that print text on stream name
RECURSIVE Printed(_, _, _)
Printed(name, text, i) ==
    IF i = 0 THEN 0
    ELSE Printed(name, text, i - 1)
         + (IF Outputs[i].output_type = "stream" /\ Outputs[i].name = name
               /\ Outputs[i].text = text THEN 1 ELSE 0)

\* the attached literal blocks without language that hold text
Blocks(text) ==
    Cardinality({p \in 1..Len(Attached) :
                    Attached[p] = Fragment("literal_block", text, "")})

\* C9 as claimed: every stream output, whatever its stream name, gives one
\* literal block holding its text
C9_EveryStreamShown ==
    IsShown =>
        \A i \in 1..Len(Outputs) :
            Outputs[i].output_type = "stream" =>
                Blocks(Outputs[i].text)
                    = Printed(Outputs[i].name, Outputs[i].text, Len(Outputs))

\* C9 as amended: every stream output named stdout gives exactly one literal
\* block, holding its text unchanged, at its place among the nodes of the
\* cell; a stream output with another name gives no node
C9_StdoutShown ==
    IsShown =>
        \A i \in 1..Len(Outputs) :
            Outputs[i].output_type = "stream" =>
                IF Outputs[i].name = "stdout"
                THEN /\ Attached[ShownBefore(i) + 1]
                          = Fragment("literal_block", Outputs[i].text, "")
                     /\ Blocks(Outputs[i].text)
                          = Printed("stdout", Outputs[i].text, Len(Outputs))
                ELSE Blocks(Outputs[i].text) = 0

\* a cell that printed on stderr and then on stdout: one node, the stdout text
C9_Witness ==
    /\ IsShown
    /\ Len(Outputs) = 2
    /\ Outputs[1].output_type = "stream" /\ Outputs[1].name = "stderr"
    /\ Outputs[2].output_type = "stream" /\ Outputs[2].name = "stdout"
    /\ Attached = <<Fragment("literal_block", Outputs[2].text, "")>>

-----------------------------------------------------------------------------
(* C11: the requests made to the kernel after the cells of a unit *)

\* the number of cells of unit g
CellCount(g) ==
    IF IsKernelNode(doc[groups[g][1]]) THEN Len(groups[g]) - 1 ELSE Len(groups[g])

\* the language of the kernel unit g runs in
UnitLanguage(g) ==
    LET first == doc[groups[g][1]]
    IN KernelLanguageInfo(IF IsKernelNode(first) /\ first.kernel_name # ""
                          THEN first.kernel_name ELSE default_kernel).name

\* the places in the log of the requests of kind ev made for unit g
Asked(ev, g) == {p \in 1..Len(log) : log[p].ev = ev /\ log[p].unit = g}

\* executenb has left its last statement for unit g without an exception
IsExecuted(g) ==
    \/ gi > g
    \/ gi = g /\ pc \in {"write_notebook_output", "render", "NextUnit", "Done"}
    \/ gi = g /\ pc = "exit" /\ exc = ""

\* C11 as claimed: by the time a unit has been executed the kernel was asked
\* for its language exactly once
C11_LanguageAskedOnce ==
    \A g \in Units :
        /\ Cardinality(Asked("kernel_info", g)) <= 1
        /\ IsExecuted(g) => Cardinality(Asked("kernel_info", g)) = 1

\* C11 as amended: for every unit the kernel is asked for its language at
\* most twice and for its widget state at most once, each of these requests
\* comes after every cell of the unit has been run, the widget state is asked
\* only of a python kernel and only after the two language requests; a unit
\* that has been executed was asked for its language exactly twice, and for
\* its widget state exactly when its language is python; a unit in another
\* language is executed without an exception and has no widget state
C11_LanguageAskedTwice ==
    \A g \in Units :
        LET asks == Asked("kernel_info", g)
            states == Asked("widget_state", g)
            runs == Asked("run", g)
        IN /\ Cardinality(asks) <= 2
           /\ Cardinality(states) <= 1
           /\ \A p \in asks \cup states :
                 /\ Cardinality(runs) = CellCount(g)
                 /\ \A r \in runs : r < p
           /\ \A q \in states :
                 /\ UnitLanguage(g) = "python"
                 /\ Cardinality({p \in asks : p < q}) = 2
           /\ IsExecuted(g) =>
                 /\ Cardinality(asks) = 2
                 /\ Cardinality(states) = (IF UnitLanguage(g) = "python" THEN 1 ELSE 0)
           /\ g = gi /\ pc = "exit" /\ UnitLanguage(g) # "python"
                 /\ Cardinality(asks) = 2 =>
                     /\ exc \in {"", "DeadKernelError"}
                     /\ notebook.widgets = None
                     /\ ~ contains_widgets(notebook)

\* a unit of one cell in a julia kernel has been executed: its kernel was
\* asked twice for its language, after the cell, and never for widgets
C11_Witness ==
    /\ gi >= 1
    /\ pc = "write_notebook_output"
    /\ UnitLanguage(gi) = "julia"
    /\ CellCount(gi) = 1
    /\ Cardinality(Asked("kernel_info", gi)) = 2
    /\ Asked("widget_state", gi) = {}
    /\ notebook.widgets = None
    /\ \A r \in Asked("run", gi) : \A p \in Asked("kernel_info", gi) : r < p

-----------------------------------------------------------------------------
(* C12: the node of a display output, for the mime types of a configuration *)

\* mime types a priority list may name and an output may hold: those of the
\* default list, another image type and another text type
DisplayedMimes ==
    {WIDGET_VIEW_MIMETYPE, "text/html", "image/png", "image/gif", "text/latex",
     "text/plain", "text/markdown"}

\* the value an output holds for mime type m
DisplayedData(m) == <<"data of", m>>

\* the priority lists: at most n mime types, none twice
PriorityLists(n) ==
    {s \in UNION {[1..k -> DisplayedMimes] : k \in 0..n} :
        \A i, j \in 1..Len(s) : i # j => s[i] # s[j]}

\* the data of the outputs: at most n mime types, in the order of the default
\* priority list
DisplayedBundles(n) ==
    {SelectSeq(<<WIDGET_VIEW_MIMETYPE, "text/html", "image/png", "image/gif",
                 "text/latex", "text/plain", "text/markdown">>,
               LAMBDA m : m \in held) :
        held \in {h \in SUBSET DisplayedMimes : Cardinality(h) <= n}}

\* apply at the rendering of a document of one cell with one display output,
\* run in the default kernel, whose outputs are written
InitMime ==
    /\ doc = <<JupyterCellNode(FALSE, FALSE, FALSE)>>
    /\ allow_errors = TRUE
    /\ priority \in PriorityLists(MaxPriority)
    /\ pc = "render"
    /\ groups = << <<1>> >>
    /\ gi = 1
    /\ next_default = 1
    /\ kernel_name = default_kernel
    /\ file_name = default_notebook_names(docname, 0)
    /\ unit_names = <<file_name>>
    /\ nodes = <<1>>
    /\ \E types \in DisplayedBundles(MaxMimes) :
          LET data == [i \in 1..Len(types) |-> <<types[i], DisplayedData(types[i])>>]
              nb == [blank_nb(kernel_name) EXCEPT
                        !.cells = <<[outputs |-> <<Display("display_data", data)>>]>>,
                        !.language_info = KernelLanguageInfo(kernel_name)]
              files == write_notebook_output(nb, output_dir, file_name)
          IN /\ notebook = ExtractOutput(nb, PathJoin(output_dir, file_name))
             /\ written = Record(files, Len(files), 1)
    /\ ci = 1
    /\ exc = ""
    /\ live = {}
    /\ log = <<Event("start", 1, 0), Event("run", 1, 1), Event("kernel_info", 1, 0),
               Event("kernel_info", 1, 0), Event("widget_state", 1, 0),
               Event("shutdown", 1, 0)>>
    /\ children = Highlight(<<<<SourceBlock>>>>, nodes,
                            notebook.language_info.pygments_lexer)
    /\ widget_nodes = <<>>

SpecMime == InitMime /\ [][Render]_vars

\* the kind of node the specification fixes for a mime type
FragmentKind(m) ==
    CASE m \in {"image/png", "image/gif"} -> "image"
      [] m = "text/html" -> "raw"
      [] m = "text/latex" -> "displaymath"
      [] m = "text/plain" -> "literal_block"
      [] m = WIDGET_VIEW_MIMETYPE -> "JupyterWidgetViewNode"
      [] OTHER -> "none"

\* C12 as claimed: once the cell has been through the rendering, a display
\* output that holds a mime type of the priority list has given exactly one
\* node, of the kind fixed by the first such mime type of the list: an image
\* of the file saved for it, or a node holding its value unchanged; and the
\* rendering has not failed
C12_OneFragment ==
    pc # "render" /\ Offered(Outputs[1]) # {} =>
        LET first == CHOOSE k \in Offered(Outputs[1]) :
                         \A j \in Offered(Outputs[1]) : k <= j
            mime == priority[first]
        IN /\ pc = "NextUnit"
           /\ Len(Attached) = 1
           /\ FragmentKind(mime) # "none" => Attached[1].kind = FragmentKind(mime)
           /\ IF FragmentKind(mime) = "image"
              THEN /\ HasMime(Outputs[1].filenames, mime)
                   /\ relfn2path(Attached[1].text) = MimeValue(Outputs[1].filenames, mime)
              ELSE Attached[1].text = DisplayedData(mime)

====
